---- MODULE Spec2Model ----
(***************************************************************************)
(* The user-account subsystem of MongoConductor (src/lib/users.js): the    *)
(* request handlers login, create, resetPassword, resetPasswordRequest,    *)
(* confirmEmail, confirmEmailRequest and changePassword, the token codec   *)
(* they share, and the account store they read and write.                  *)
(*                                                                         *)
(* Every handler is a chain of callbacks.  One action of the model is one  *)
(* callback (the code between two waits on the store, the credential       *)
(* library or the mail transport), so requests interleave exactly where    *)
(* the code waits.  Time is counted in minutes.                            *)
(***************************************************************************)
EXTENDS Integers, Sequences, FiniteSets, TLC

\* ------------------------------------------------------------------ bounds
MaxUsers == 2
MaxTicks == 2
MaxRequests == 3
NumSlots == 2
MaxTimeout == 1

\* ------------------------------------------------------- program constants
\* users.js:138  `timeout ? timeout : 1440`
DefaultGrace == 1440
\* users.js:138  a timeout that is absent (undefined) or 0 is falsy
NoTimeout == 0
\* users.js:228  new Date(null): the time value 0
Epoch == 0

Ids == 1 .. MaxUsers
Emails == 1 .. MaxUsers
Passwords == {"pw1", "pw2"}
NoPassword == "undefined"
\* Accounts are registered with "pw1"; a reset or a change asks for "pw2" or
\* sends no password.
RegisterPasswords == {"pw1"}
NewPasswords == {"pw2", NoPassword}
Keys == {"k1", "k2"}
Slots == 1 .. NumSlots

\* ------------------------------------------------------------ access grants
\* users.js:32-41: a subject's key is 'user:' + _id, a role's is 'role:' + name.
UserKey(id) == [kind |-> "user", user |-> id, role |-> ""]
RoleKey(r) == [kind |-> "role", user |-> 0, role |-> r]
Subjects == {UserKey(i) : i \in Ids} \cup {RoleKey("admin"), RoleKey("guest")}
FullCaps == {"read", "write", "delete"}
EmptyAcl == [k \in Subjects |-> {}]

\* mongoose-acl's object.setAccess(key, perms): _acl[key] = perms.
SetAccess(acl, key, perms) == [acl EXCEPT ![key] = perms]

\* The request bodies of a registration, which `new UserModel(request.body)`
\* takes over path by path: the form's (email and password; isConfirmed and
\* roles take their defaults) and a forged one that also carries isConfirmed,
\* roles and an _acl.
Bodies ==
  [email : Emails, password : RegisterPasswords, isConfirmed : {FALSE},
   roles : {{}}, acl : {EmptyAcl}]
    \cup [email : Emails, password : RegisterPasswords, isConfirmed : {TRUE},
          roles : {{"admin"}},
          acl : {SetAccess(EmptyAcl, RoleKey("guest"), FullCaps)}]

\* ---------------------------------------------------------------- accounts
NoUser ==
  [exists |-> FALSE, email |-> 0, isConfirmed |-> FALSE, cred |-> NoPassword,
   created |-> Epoch, lastLogin |-> Epoch, roles |-> {}, acl |-> EmptyAcl]

Paths ==
  {"email", "isConfirmed", "cred", "created", "lastLogin", "roles", "acl"}

\* ---------------------------------------------------------------- settings
\* server.settings as the handlers read it.  mail.present: settings.mail and
\* settings.mail.messages exist, with both templates; mail.confirmEmail /
\* mail.passwordResetRequest: that template's `enabled` is truthy.  Both token
\* classes are configured objects; a class's timeout may be absent (NoTimeout).
TokenClasses ==
  [timeout : 0 .. MaxTimeout, algorithm : {"aes192"}, password : Keys]

MailSettings ==
  {[present |-> FALSE, confirmEmail |-> FALSE, passwordResetRequest |-> FALSE]}
    \cup [present : {TRUE}, confirmEmail : BOOLEAN, passwordResetRequest : BOOLEAN]

\* The reset-password class is keyed "k1"; the confirm-email class takes either
\* key, so both the shared-key and the distinct-key configurations occur.
Settings ==
  {s \in [mail : MailSettings, confirmEmailToken : TokenClasses,
          resetPasswordToken : TokenClasses] :
     s.resetPasswordToken.password = "k1"}

VARIABLES
  settings,   \* server.settings, fixed when the server is constructed
  users,      \* the users collection: Ids -> account or NoUser
  session,    \* the client's session: the logged-in account id, or 0
  outbox,     \* the messages the mail transport accepted
  slots,      \* the requests in flight, one per slot
  last,       \* the request the latest callback answered or finished, if any
  now,        \* the clock, in minutes
  ticks,      \* clock advances so far
  started,    \* requests started so far
  used        \* history: the tokens an operation has completed its work with

vars ==
  <<settings, users, session, outbox, slots, last, now, ticks, started, used>>

\* ------------------------------------------------------------- token codec
\* The time value NaN of an Invalid Date: below every real time.
InvalidDate == Epoch - 1

\* Mutant of AddMinutes: the timeout is subtracted.
AddMinutesBack(date, timeout) ==
  IF timeout = NoTimeout THEN InvalidDate ELSE date - timeout

\* users.js:496-497, 557-558: expiration.setMinutes(getMinutes() + timeout);
\* an absent timeout makes the sum NaN and the date invalid.
AddMinutes(date, timeout) ==
  IF timeout = NoTimeout THEN InvalidDate ELSE date + timeout

\* JSON.stringify of {_id, expiration}: a Date is written as its ISO string
\* (exact to the millisecond), an Invalid Date as null.
Stringify(id, expiration) ==
  [_id |-> id,
   expiration |-> IF expiration = InvalidDate
                  THEN [null |-> TRUE, iso |-> Epoch]
                  ELSE [null |-> FALSE, iso |-> expiration]]

\* new Date(token.expiration) on the parsed text: new Date(null) is the epoch.
ParseExpiration(text) ==
  IF text.expiration.null THEN Epoch ELSE text.expiration.iso

\* crypto.createCipher(algorithm, password) over the text, hex-encoded.
Encipher(text, algorithm, password) ==
  [garbage |-> FALSE, algorithm |-> algorithm, password |-> password,
   text |-> text]

\* A string that is no ciphertext of any class.
Garbage ==
  [garbage |-> TRUE, algorithm |-> "", password |-> "",
   text |-> Stringify(0, InvalidDate)]

\* Mutant of DecipherOk: the password is not part of the cipher.
DecipherAnyPassword(token, algorithm, password) ==
  /\ ~token.garbage
  /\ token.algorithm = algorithm

\* users.js:223-226, 321-324: createDecipher / update / final / JSON.parse.
\* Under another algorithm or password final() or JSON.parse throws.
DecipherOk(token, algorithm, password) ==
  /\ ~token.garbage
  /\ token.algorithm = algorithm
  /\ token.password = password

\* users.js:496-507, 557-568: the token minted for `id` at `date`.
Mint(id, date, class) ==
  Encipher(Stringify(id, AddMinutes(date, class.timeout)),
           class.algorithm, class.password)

\* Mutant of Expired: a token is still good at its expiration.
ExpiredAfter(date, expiration) == date > expiration

\* users.js:228, 327: new Date() >= new Date(token.expiration)
Expired(date, expiration) == date >= expiration


\* --------------------------------------------------------- feature flags
\* Mutant of ConfirmEmailEnabled: the template's `enabled` is not read.
ConfirmEmailPresent(st) == st.mail.present

\* users.js:537-550
ConfirmEmailEnabled(st) ==
  /\ st.mail.present
  /\ st.mail.confirmEmail

\* users.js:477-490
ResetPasswordEnabled(st) ==
  /\ st.mail.present
  /\ st.mail.passwordResetRequest

\* ------------------------------------------------------------ the store
\* Mutant of Persist: the whole document read earlier is written back.
PersistWhole(stored, doc, mod) == [p \in DOMAIN stored |-> doc[p]]

\* document.save(): mongoose writes the paths the handler modified ($set of
\* the modified paths), not the whole document it read earlier.
Persist(stored, doc, mod) ==
  [p \in DOMAIN stored |-> IF p \in mod THEN doc[p] ELSE stored[p]]

\* Mutant of ByEmail: the condition is not applied.
ByEmailAny(email) == {i \in Ids : users[i].exists}

\* UserModel.findOne({email: ...}): the ids of the accounts with that email.
ByEmail(email) == {i \in Ids : users[i].exists /\ users[i].email = email}

\* ------------------------------------------------------------- requests
\* A request's locals: its body (email, password, token), the document it
\* holds (id, doc) with the paths it modified (mod), the decoded expiration,
\* the time it read (date), the token it hands to the mail transport (mail),
\* what it did so far (ev) and its response (kind, status, and the value of
\* a boolean result).
IdleSlot ==
  [op |-> "none", pc |-> "idle", email |-> 0, password |-> NoPassword,
   token |-> Garbage, id |-> 0, doc |-> NoUser, mod |-> {},
   expiration |-> Epoch, date |-> Epoch, mail |-> Garbage, ev |-> <<>>,
   kind |-> "none", status |-> 0, value |-> FALSE]

\* A request arrives and takes the first idle slot.
Arrive(s) ==
  /\ slots[s].pc = "idle"
  /\ \A t \in Slots : t < s => slots[t].pc # "idle"
  /\ started < MaxRequests
  /\ started' = started + 1

NewRequest(op) == [IdleSlot EXCEPT !.op = op]

\* A callback of the request in slot s ends with the locals r: the slot is
\* released when the request is finished, and `last` shows the request when
\* the callback answered or finished it.
Step(s, r) ==
  /\ slots' = [slots EXCEPT ![s] = IF r.pc = "done" THEN IdleSlot ELSE r]
  /\ last' = IF r.pc = "done" \/ r.kind # slots[s].kind THEN r ELSE IdleSlot

\* server.result(request, response, value)
Result(sl) ==
  [sl EXCEPT !.pc = "done", !.kind = "result", !.status = 200,
             !.ev = Append(@, "result")]

\* server.error(request, response, message, status)
Error(sl, status) ==
  [sl EXCEPT !.pc = "done", !.kind = "error", !.status = status,
             !.ev = Append(@, "error")]

\* An exception leaves the handler: neither server.result nor server.error
\* is called by it.
Throw(sl) ==
  [sl EXCEPT !.pc = "done", !.kind = "exception", !.ev = Append(@, "throw")]

Did(sl, e) == [sl EXCEPT !.ev = Append(@, e)]

\* Mutant of Logout: the session is kept.
LogoutKeeps(sess) == sess

\* request.logout(): passport drops the session's user.
Logout(sess) == 0


\* ----------------------------------------------------------------- login
\* users.js:138
GraceMinutes(st) ==
  IF st.confirmEmailToken.timeout # NoTimeout
  THEN st.confirmEmailToken.timeout
  ELSE DefaultGrace

\* Mutant of WithinGrace: the grace period ends a minute early.
WithinGraceStrict(created, grace, date) == created + grace > date

\* users.js:141-147: timeoutDate >= currentDate
WithinGrace(created, grace, date) == created + grace >= date

\* users.js:133-149: the value of emailConfirmed.  _created is a Date, set by
\* the timestamp plugin when the account is saved, and so always truthy.
EmailConfirmed(st, doc, date) ==
  IF ConfirmEmailEnabled(st) /\ ~doc.isConfirmed
  THEN WithinGrace(doc.created, GraceMinutes(st), date)
  ELSE TRUE

\* users.js:151-164: stamp _lastLogin, start the save (no callback waits for
\* it), filter, respond.
LoginAccept(sl, date) ==
  [Result(Did(Did([sl EXCEPT !.doc.lastLogin = date, !.mod = {"lastLogin"}],
                  "save"), "filter"))
   EXCEPT !.pc = "save"]

\* users.js:165-172
LoginRefuse(sl) == Error(Did(sl, "logout"), 403)

\* users.js:77 and 131-173.  passport.authenticate('local') looks the account
\* up by email and checks the password; on failure it answers 401 itself and
\* the handler does not run; on success it logs the account into the session.
Login(s, email, password) ==
  /\ Arrive(s)
  /\ LET found == ByEmail(email)
         sl == [NewRequest("login") EXCEPT !.email = email,
                                           !.password = password,
                                           !.date = now]
     IN IF found = {} \/ \A i \in found : users[i].cred # password
        THEN /\ Step(s, [sl EXCEPT !.pc = "done", !.kind = "unauthorized",
                                   !.status = 401])
             /\ UNCHANGED session
        ELSE LET i == CHOOSE j \in found : users[j].cred = password
                 rq == [sl EXCEPT !.id = i, !.doc = users[i]]
             IN IF EmailConfirmed(settings, rq.doc, now)
                THEN /\ Step(s, LoginAccept(rq, now))
                     /\ session' = i
                ELSE /\ Step(s, LoginRefuse(rq))
                     /\ session' = Logout(i)
  /\ UNCHANGED <<settings, used, users, outbox, now, ticks>>

\* users.js:158: the save started by login completes, or fails unobserved.
LoginSaved(s, ok) ==
  /\ slots[s].op = "login"
  /\ slots[s].pc = "save"
  /\ LET sl == slots[s]
     IN /\ users' = IF ok
                    THEN [users EXCEPT ![sl.id] = Persist(@, sl.doc, sl.mod)]
                    ELSE users
        /\ Step(s, [Did(sl, IF ok THEN "saved" ELSE "savefailed")
                    EXCEPT !.pc = "done"])
  /\ UNCHANGED <<settings, used, session, outbox, now, ticks, started>>

\* ------------------------------------------------------------ mail (send)
\* Mutant of SendConfirmEmail: isConfirmed is not looked at.
SendConfirmEmailAlways(sl, st, id, doc, date) ==
  IF ConfirmEmailEnabled(st)
  THEN [Did(Did(sl, "mint"), "send") EXCEPT
          !.pc = "mail", !.mail = Mint(id, date, st.confirmEmailToken)]
  ELSE Error(sl, 500)

\* users.js:552-601 sendConfirmEmail, up to the hand-over to server.mail.send:
\* the request waits for the transport with the minted token, or the callback
\* is called with an error at once (answered 500 by every caller).
SendConfirmEmail(sl, st, id, doc, date) ==
  IF ConfirmEmailEnabled(st)
  THEN IF doc.isConfirmed # TRUE
       THEN [Did(Did(sl, "mint"), "send") EXCEPT
               !.pc = "mail", !.mail = Mint(id, date, st.confirmEmailToken)]
       ELSE Error(sl, 500)
  ELSE Error(sl, 500)

\* users.js:492-535 sendResetPassword; line 494 tests confirmEmailEnabled.
SendResetPassword(sl, st, id, date) ==
  IF ConfirmEmailEnabled(st)
  THEN [Did(Did(sl, "mint"), "send") EXCEPT
          !.pc = "mail", !.mail = Mint(id, date, st.resetPasswordToken)]
  ELSE Error(sl, 500)

\* The message as the transport delivers it.
Message(class, sl) ==
  [class |-> class, to |-> sl.id, token |-> sl.mail, date |-> sl.date]

\* Mutant of MailDone: a registration whose mail fails is rolled back.
MailDoneRollback(s, op, class, ok) ==
  /\ slots[s].op = op
  /\ slots[s].pc = "mail"
  /\ IF ok
     THEN /\ outbox' = outbox \cup {Message(class, slots[s])}
          /\ users' = users
          /\ Step(s, Result(slots[s]))
     ELSE /\ outbox' = outbox
          /\ users' = IF op = "create"
                      THEN [users EXCEPT ![slots[s].id] = NoUser]
                      ELSE users
          /\ Step(s, Error(slots[s], 500))
  /\ UNCHANGED <<settings, used, session, now, ticks, started>>

\* The callback of server.mail.send (users.js:200-210, 303-313, 391-401).
MailDone(s, op, class, ok) ==
  /\ slots[s].op = op
  /\ slots[s].pc = "mail"
  /\ IF ok
     THEN /\ outbox' = outbox \cup {Message(class, slots[s])}
          /\ Step(s, Result(slots[s]))
     ELSE /\ outbox' = outbox
          /\ Step(s, Error(slots[s], 500))
  /\ UNCHANGED <<settings, used, users, session, now, ticks, started>>

\* -------------------------------------------------------------- register
\* The ids no account holds or has held, and no registration in flight
\* holds: the store never issues an _id twice.
FreshIds ==
  {i \in Ids : /\ users[i] = NoUser
               /\ \A s \in Slots : ~(slots[s].op = "create" /\ slots[s].id = i)}

\* users.js:181-185: the entity built from the request body, then the two
\* grants.  The body's isConfirmed and _acl are schema paths and are taken
\* over; the entity gets a fresh _id.
NewAccount(id, body) ==
  [exists |-> TRUE, email |-> body.email, isConfirmed |-> body.isConfirmed,
   cred |-> NoPassword, created |-> Epoch, lastLogin |-> Epoch,
   roles |-> body.roles,
   acl |-> SetAccess(SetAccess(body.acl, UserKey(id), FullCaps),
                     RoleKey("admin"), FullCaps)]

\* users.js:180-187: create, up to the call of UserModel.register.  Emails are
\* interchangeable: a registration names a registered email or the next one.
Create(s, body) ==
  /\ Arrive(s)
  /\ FreshIds # {}
  /\ body.email <= Cardinality({i \in Ids : users[i].exists}) + 1
  /\ LET id == CHOOSE i \in FreshIds : \A j \in FreshIds : i <= j
     IN Step(s, [Did(Did(Did(NewRequest("create"), "setAccess"), "setAccess"),
                     "register") EXCEPT
                   !.pc = "register", !.email = body.email,
                   !.password = body.password, !.id = id,
                   !.doc = NewAccount(id, body)])
  /\ UNCHANGED <<settings, used, users, session, outbox, now, ticks>>

\* users.js:187-216: the callback of UserModel.register.  The credential
\* library refuses a missing password and an email already registered;
\* otherwise it sets the credential and saves the account (the timestamp
\* plugin stamps _created).
CreateRegistered(s, ok) ==
  /\ slots[s].op = "create"
  /\ slots[s].pc = "register"
  /\ LET sl == slots[s]
     IN IF ~ok \/ sl.password = NoPassword \/ ByEmail(sl.email) # {}
        THEN /\ Step(s, Error(sl, 500))
             /\ users' = users
        ELSE LET user == [sl.doc EXCEPT !.cred = sl.password, !.created = now]
                 saved == Did(Did([sl EXCEPT !.doc = user, !.date = now],
                                  "saved"), "filter")
             IN /\ users' = [users EXCEPT ![sl.id] = user]
                /\ Step(s, IF ConfirmEmailEnabled(settings)
                           THEN SendConfirmEmail(saved, settings, sl.id, user,
                                                 now)
                           ELSE Result(saved))
  /\ UNCHANGED <<settings, used, session, outbox, now, ticks, started>>

CreateMailDone(s, ok) == MailDone(s, "create", "confirmEmail", ok)

\* ---------------------------------------------------------- token verify
\* users.js:221-233, 319-330: decipher, parse, expiry check.  A token that
\* does not decipher throws out of the handler.
Verify(sl, class, date) ==
  IF ~DecipherOk(sl.token, class.algorithm, class.password)
  THEN Throw(sl)
  ELSE LET expiration == ParseExpiration(sl.token.text)
           rq == [sl EXCEPT !.expiration = expiration, !.date = date,
                            !.id = sl.token.text._id]
       IN IF Expired(date, expiration)
          THEN Error(rq, 400)
          ELSE [Did(rq, "find") EXCEPT !.pc = "find"]

\* The tokens a client can present: the ones mailed out, and garbage.
Presentable == {m.token : m \in outbox} \cup {Garbage}

\* -------------------------------------------------------- reset password
\* users.js:219-236
ResetPassword(s, token, password) ==
  /\ Arrive(s)
  /\ Step(s, Verify([NewRequest("resetPassword") EXCEPT
                       !.token = token, !.password = password],
                    settings.resetPasswordToken, now))
  /\ UNCHANGED <<settings, used, users, session, outbox, now, ticks>>

\* Mutant of SetPassword: the document is marked confirmed as well.
SetPasswordConfirms(sl, password) ==
  IF password = NoPassword
  THEN Error(sl, 500)
  ELSE [Did(Did([sl EXCEPT !.doc.cred = password, !.doc.isConfirmed = TRUE,
                           !.mod = {"cred", "isConfirmed"}],
                "setPassword"), "save")
        EXCEPT !.pc = "save"]

\* passport-local-mongoose's setPassword(password, cb) on the document read:
\* a missing password is an error; otherwise the document's credential is
\* replaced (in memory).
SetPassword(sl, password) ==
  IF password = NoPassword
  THEN Error(sl, 500)
  ELSE [Did(Did([sl EXCEPT !.doc.cred = password, !.mod = {"cred"}],
                "setPassword"), "save")
        EXCEPT !.pc = "save"]

\* users.js:236-264: the callbacks of findById and of setPassword.
ResetPasswordFound(s, ok) ==
  /\ slots[s].op = "resetPassword"
  /\ slots[s].pc = "find"
  /\ LET sl == slots[s]
     IN Step(s, IF ~ok THEN Error(sl, 500)
                ELSE IF ~users[sl.id].exists THEN Error(sl, 404)
                ELSE SetPassword([sl EXCEPT !.doc = users[sl.id]],
                                 sl.password))
  /\ UNCHANGED <<settings, used, users, session, outbox, now, ticks, started>>

\* The callback of user.save (users.js:264-277, 352-365, 459-472).
Saved(s, op, ok) ==
  /\ slots[s].op = op
  /\ slots[s].pc = "save"
  /\ LET sl == slots[s]
     IN IF ok
        THEN /\ users' = [users EXCEPT ![sl.id] = Persist(@, sl.doc, sl.mod)]
             /\ used' = IF op \in {"resetPassword", "confirmEmail"}
                        THEN used \cup {<<op, sl.token>>}
                        ELSE used
             /\ Step(s, Result(Did(sl, "saved")))
        ELSE /\ users' = users
             /\ used' = used
             /\ Step(s, Error(sl, 500))
  /\ UNCHANGED <<settings, session, outbox, now, ticks, started>>

ResetPasswordSaved(s, ok) == Saved(s, "resetPassword", ok)

\* ---------------------------------------------------------- confirm email
\* users.js:317-334
ConfirmEmail(s, token) ==
  /\ Arrive(s)
  /\ Step(s, Verify([NewRequest("confirmEmail") EXCEPT !.token = token],
                    settings.confirmEmailToken, now))
  /\ UNCHANGED <<settings, used, users, session, outbox, now, ticks>>

\* users.js:349: user.isConfirmed = true, on the document read.
Confirm(doc) == [doc EXCEPT !.isConfirmed = TRUE]

\* users.js:334-352: the callback of findById.
ConfirmEmailFound(s, ok) ==
  /\ slots[s].op = "confirmEmail"
  /\ slots[s].pc = "find"
  /\ LET sl == slots[s]
     IN Step(s, IF ~ok THEN Error(sl, 500)
                ELSE IF ~users[sl.id].exists THEN Error(sl, 404)
                ELSE [Did([sl EXCEPT !.doc = Confirm(users[sl.id]),
                                     !.mod = {"isConfirmed"}], "save")
                      EXCEPT !.pc = "save"])
  /\ UNCHANGED <<settings, used, users, session, outbox, now, ticks, started>>

ConfirmEmailSaved(s, ok) == Saved(s, "confirmEmail", ok)


\* ------------------------------------------------- reset password request
\* users.js:282-303: the handler and the callback of findOne.
ResetPasswordRequest(s, email, ok) ==
  /\ Arrive(s)
  /\ LET sl == Did([NewRequest("resetPasswordRequest") EXCEPT
                      !.email = email, !.date = now], "find")
         found == ByEmail(email)
     IN Step(s, IF ~ok THEN Error(sl, 500)
                ELSE IF found = {} THEN Error(sl, 404)
                ELSE LET i == CHOOSE j \in found : TRUE
                     IN SendResetPassword(
                          [sl EXCEPT !.id = i, !.doc = users[i]],
                          settings, i, now))
  /\ UNCHANGED <<settings, used, users, session, outbox, now, ticks>>

ResetPasswordRequestMailDone(s, ok) ==
  MailDone(s, "resetPasswordRequest", "resetPassword", ok)

\* -------------------------------------------------- confirm email request
\* users.js:370-391: the handler and the callback of findOne.
ConfirmEmailRequest(s, email, ok) ==
  /\ Arrive(s)
  /\ LET sl == Did([NewRequest("confirmEmailRequest") EXCEPT
                      !.email = email, !.date = now], "find")
         found == ByEmail(email)
     IN Step(s, IF ~ok THEN Error(sl, 500)
                ELSE IF found = {} THEN Error(sl, 404)
                ELSE LET i == CHOOSE j \in found : TRUE
                     IN SendConfirmEmail(
                          [sl EXCEPT !.id = i, !.doc = users[i]],
                          settings, i, users[i], now))
  /\ UNCHANGED <<settings, used, users, session, outbox, now, ticks>>

ConfirmEmailRequestMailDone(s, ok) ==
  MailDone(s, "confirmEmailRequest", "confirmEmail", ok)

\* --------------------------------------------------------- change password
\* users.js:435-459.  request.user is the session's account, read when the
\* request arrived; without a session it is undefined and line 437 throws.
\* passport-local-mongoose's authenticate calls back (null, false) on a wrong
\* password, so line 445 calls setPassword on false and throws.
ChangePassword(s, oldPassword, newPassword) ==
  /\ Arrive(s)
  /\ LET sl == [NewRequest("changePassword") EXCEPT !.password = newPassword,
                                                    !.date = now]
     IN Step(s, IF session = 0 THEN Throw(sl)
                ELSE LET rq == Did([sl EXCEPT !.id = session,
                                              !.doc = users[session]],
                                   "authenticate")
                     IN IF rq.doc.cred # oldPassword
                        THEN Throw(rq)
                        ELSE SetPassword(rq, newPassword))
  /\ UNCHANGED <<settings, used, users, session, outbox, now, ticks>>

ChangePasswordSaved(s, ok) == Saved(s, "changePassword", ok)

\* ------------------------------------------------------ current is in role
Roles == {"admin"}

\* users.js:414-433.  request.user is the session's account, read when the
\* request arrived; without a session the answer is false.
CurrentIsInRole(s, role) ==
  /\ Arrive(s)
  /\ LET sl == [NewRequest("currentIsInRole") EXCEPT !.date = now]
     IN Step(s, IF session = 0
                THEN Result(sl)
                ELSE Result([sl EXCEPT
                               !.id = session, !.doc = users[session],
                               !.value = role \in users[session].roles]))
  /\ UNCHANGED <<settings, used, users, session, outbox, now, ticks>>

\* ------------------------------------------------------------------ clock
\* Time passes: a minute, or a day.  The clock counts minutes and a request
\* is served within the minute it arrives in.
TickSteps == {1, DefaultGrace}

Tick(d) ==
  /\ ticks < MaxTicks
  /\ \A s \in Slots : slots[s].pc = "idle"
  /\ ticks' = ticks + 1
  /\ now' = now + d
  /\ last' = IdleSlot
  /\ UNCHANGED <<settings, used, users, session, outbox, slots, started>>

\* ---------------------------------------------------------- specification
Init ==
  /\ settings \in Settings
  /\ users = [i \in Ids |-> NoUser]
  /\ session = 0
  /\ outbox = {}
  /\ slots = [s \in Slots |-> IdleSlot]
  /\ last = IdleSlot
  /\ now = Epoch + 1
  /\ ticks = 0
  /\ started = 0
  /\ used = {}

Next ==
  \/ \E s \in Slots, e \in Emails, p \in Passwords : Login(s, e, p)
  \/ \E s \in Slots, ok \in BOOLEAN : LoginSaved(s, ok)
  \/ \E s \in Slots, b \in Bodies : Create(s, b)
  \/ \E s \in Slots, ok \in BOOLEAN : CreateRegistered(s, ok)
  \/ \E s \in Slots, ok \in BOOLEAN : CreateMailDone(s, ok)
  \/ \E s \in Slots, t \in Presentable, p \in NewPasswords :
        ResetPassword(s, t, p)
  \/ \E s \in Slots, ok \in BOOLEAN : ResetPasswordFound(s, ok)
  \/ \E s \in Slots, ok \in BOOLEAN : ResetPasswordSaved(s, ok)
  \/ \E s \in Slots, t \in Presentable : ConfirmEmail(s, t)
  \/ \E s \in Slots, ok \in BOOLEAN : ConfirmEmailFound(s, ok)
  \/ \E s \in Slots, ok \in BOOLEAN : ConfirmEmailSaved(s, ok)
  \/ \E s \in Slots, e \in Emails, ok \in BOOLEAN :
        ResetPasswordRequest(s, e, ok)
  \/ \E s \in Slots, ok \in BOOLEAN : ResetPasswordRequestMailDone(s, ok)
  \/ \E s \in Slots, e \in Emails, ok \in BOOLEAN :
        ConfirmEmailRequest(s, e, ok)
  \/ \E s \in Slots, ok \in BOOLEAN : ConfirmEmailRequestMailDone(s, ok)
  \/ \E s \in Slots, o \in Passwords, n \in NewPasswords :
        ChangePassword(s, o, n)
  \/ \E s \in Slots, ok \in BOOLEAN : ChangePasswordSaved(s, ok)
  \/ \E s \in Slots, r \in Roles : CurrentIsInRole(s, r)
  \/ \E d \in TickSteps : Tick(d)

Spec == Init /\ [][Next]_vars

\* ------------------------------------------------ the store's other clients
\* users.js never removes an account, but the store is shared: a client
\* holding the "delete" capability the grants carry (users.js:182-185) can
\* remove the document, by a request of its own to the server.  The _id
\* stays used up; a session of the removed account no longer deserialises
\* to a user.
Remove(i) ==
  /\ users[i].exists
  /\ started < MaxRequests
  /\ started' = started + 1
  /\ users' = [users EXCEPT ![i].exists = FALSE]
  /\ session' = IF session = i THEN 0 ELSE session
  /\ last' = IdleSlot
  /\ UNCHANGED <<settings, used, outbox, slots, now, ticks>>

StoreNext ==
  \/ Next
  \/ \E i \in Ids : Remove(i)

StoreSpec == Init /\ [][StoreNext]_vars


\* ================================================================ email.js
\* The promise-based mailer (src/lib/email.js).  Under EmailSpec the slots
\* hold the calls of Email.sendResetPassword and Email.sendConfirmEmail in
\* flight, `kind` is the state of the promise a call returned ("none" while
\* it is pending) and the outbox holds what the SMTP server accepted.
\* settings stands for the emails collection and the properties: mail.present:
\* the collection holds the templates; mail.confirmEmail and
\* mail.passwordResetRequest: the template's `enabled`; confirmEmailToken and
\* resetPasswordToken: the properties backrest.authentication.<class>.*.
EmailOps == {"Email.sendResetPassword", "Email.sendConfirmEmail"}

TemplateName(op) ==
  IF op = "Email.sendConfirmEmail" THEN "confirmEmail"
  ELSE "passwordResetRequest"

EmailClass(op) ==
  IF op = "Email.sendConfirmEmail" THEN "confirmEmail" ELSE "resetPassword"

EmailToken(st, op) ==
  IF op = "Email.sendConfirmEmail" THEN st.confirmEmailToken
  ELSE st.resetPasswordToken

\* email.js:20-32 getEmail: the document findOne yields, null when the
\* collection has none of that name.
GetEmail(st, name) ==
  IF st.mail.present
  THEN [found |-> TRUE, enabled |-> st.mail[name]]
  ELSE [found |-> FALSE, enabled |-> FALSE]

\* Token.generate(timeout, algorithm, password, id) of ./token: the token of
\* the class for the id, expiring `timeout` minutes after `date`.
TokenGenerate(timeout, algorithm, password, id, date) ==
  Mint(id, date,
       [timeout |-> timeout, algorithm |-> algorithm, password |-> password])

\* resolve(...) of the promise the call returned: it settles a pending
\* promise and does nothing to a settled one.
Settle(sl) ==
  IF sl.kind = "none"
  THEN [sl EXCEPT !.kind = "resolved", !.ev = Append(@, "resolve")]
  ELSE sl

\* A promise of the chain is rejected, or its callback throws: no rejection
\* handler is attached anywhere (only .then(onFulfilled)), so the chain ends
\* and the promise the call returned stays as it is.
Abandon(sl) == [Did(sl, "reject") EXCEPT !.pc = "done"]

\* The user object a caller hands to the mailer.
EmailUser(id, confirmed) ==
  [NoUser EXCEPT !.exists = TRUE, !.email = id, !.isConfirmed = confirmed]

\* email.js:92-94: sendResetPassword, up to the template lookup.
EmailSendResetPassword(s, id) ==
  /\ Arrive(s)
  /\ Step(s, [Did([NewRequest("Email.sendResetPassword") EXCEPT
                     !.id = id, !.doc = EmailUser(id, FALSE), !.date = now],
                  "getEmail")
              EXCEPT !.pc = "getEmail"])
  /\ UNCHANGED <<settings, used, users, session, outbox, now, ticks>>

\* email.js:141-147: sendConfirmEmail, up to the template lookup.
EmailSendConfirmEmail(s, id, confirmed) ==
  /\ Arrive(s)
  /\ LET sl == [NewRequest("Email.sendConfirmEmail") EXCEPT
                 !.id = id, !.doc = EmailUser(id, confirmed), !.date = now]
     IN Step(s, IF sl.doc.isConfirmed
                THEN [Settle(sl) EXCEPT !.pc = "done"]
                ELSE [Did(sl, "getEmail") EXCEPT !.pc = "getEmail"])
  /\ UNCHANGED <<settings, used, users, session, outbox, now, ticks>>

\* email.js:24-30 and 94-102, 147-155: the callback of findOne and the
\* then-callback of getEmail.  A failed lookup rejects; `email.enabled` on
\* null throws; `if (!email.enabled) { resolve(); }` has no return, so the
\* callback goes on to ask for the properties either way.
EmailGotEmail(s, ok) ==
  /\ slots[s].op \in EmailOps
  /\ slots[s].pc = "getEmail"
  /\ LET sl == slots[s]
         email == GetEmail(settings, TemplateName(sl.op))
     IN Step(s, IF ~ok \/ ~email.found
                THEN Abandon(sl)
                ELSE [Did(IF ~email.enabled THEN Settle(sl) ELSE sl,
                          "getValue")
                      EXCEPT !.pc = "properties"])
  /\ UNCHANGED <<settings, used, users, session, outbox, now, ticks, started>>

\* email.js:103-130, 156-185: the then-callback of Promise.all over the three
\* properties: generate the token, format the message, call this.send.
EmailGotProperties(s, ok) ==
  /\ slots[s].op \in EmailOps
  /\ slots[s].pc = "properties"
  /\ LET sl == slots[s]
         class == EmailToken(settings, sl.op)
     IN Step(s, IF ~ok
                THEN Abandon(sl)
                ELSE [Did(Did(sl, "mint"), "send") EXCEPT
                        !.pc = "send",
                        !.mail = TokenGenerate(class.timeout, class.algorithm,
                                               class.password, sl.id, now)])
  /\ UNCHANGED <<settings, used, users, session, outbox, now, ticks, started>>

\* What becomes of a call of Email.send (email.js:39-70): the SMTP server
\* accepts the message, or calls back with an error (send resolves with it),
\* or backrest.email.enabled is false (send resolves without dispatching), or
\* a property lookup is rejected (send never settles).
SendOutcomes == {"sent", "error", "disabled", "lost"}

\* email.js:130, 185: this.send(email).then(resolve).
EmailSent(s, outcome) ==
  /\ slots[s].op \in EmailOps
  /\ slots[s].pc = "send"
  /\ LET sl == slots[s]
     IN /\ outbox' = IF outcome = "sent"
                     THEN outbox \cup {Message(EmailClass(sl.op), sl)}
                     ELSE outbox
        /\ Step(s, IF outcome = "lost"
                   THEN Abandon(sl)
                   ELSE [Settle(Did(sl, outcome)) EXCEPT !.pc = "done"])
  /\ UNCHANGED <<settings, used, users, session, now, ticks, started>>

EmailNext ==
  \/ \E s \in Slots, i \in Ids : EmailSendResetPassword(s, i)
  \/ \E s \in Slots, i \in Ids, c \in BOOLEAN : EmailSendConfirmEmail(s, i, c)
  \/ \E s \in Slots, ok \in BOOLEAN : EmailGotEmail(s, ok)
  \/ \E s \in Slots, ok \in BOOLEAN : EmailGotProperties(s, ok)
  \/ \E s \in Slots, o \in SendOutcomes : EmailSent(s, o)

EmailSpec == Init /\ [][EmailNext]_vars


\* ================================================================= claims
TokenOps == {"resetPassword", "confirmEmail"}

\* The requests a state shows: those in flight and the one just answered.
Requests == {slots[s] : s \in Slots} \cup {last}

Confirmed(us, i) == us[i].exists /\ us[i].isConfirmed

\* Confirmation is required by configuration.
ConfirmationRequired ==
  settings.mail.present /\ settings.mail.confirmEmail

\* The tokens mailed out for a class.
Mailed(class) == {m.token : m \in {x \in outbox : x.class = class}}

\* ---------------------------------------------------------------------- C1
\* C1: an account whose isConfirmed is true never has isConfirmed become
\* false again, whatever Register, Login, ResetPasswordRequest, ResetPassword,
\* ConfirmEmailRequest, ConfirmEmail and ChangePassword callbacks run.
C1_ConfirmationMonotonic ==
  [][\A i \in Ids : Confirmed(users, i) => Confirmed(users', i)]_vars

\* A request that read the account before it was confirmed has saved its
\* change after the confirmation.
C1_Witness ==
  /\ last.pc = "done"
  /\ last.ev # <<>>
  /\ last.ev[Len(last.ev)] \in {"saved", "result"}
  /\ last.mod # {}
  /\ "isConfirmed" \notin last.mod
  /\ ~last.doc.isConfirmed
  /\ Confirmed(users, last.id)

\* ---------------------------------------------------------------------- C2
\* C2: an account becomes confirmed only in the save of a ConfirmEmail request
\* whose token deciphered under the confirm-email class, was not expired and
\* names that account; no other callback produces a confirmed account.
C2_ConfirmedOnlyByConfirmEmail ==
  [][\A i \in Ids :
       (Confirmed(users', i) /\ ~Confirmed(users, i)) =>
         \E s \in Slots :
           /\ slots[s].op = "confirmEmail"
           /\ slots[s].pc = "save"
           /\ slots'[s].pc = "idle"
           /\ slots[s].id = i
           /\ users[i].exists
           /\ slots[s].token.password = settings.confirmEmailToken.password
           /\ slots[s].token.text._id = i
           /\ slots[s].date < slots[s].expiration]_vars

\* ---------------------------------------------------------------------- C3
\* C3: a ResetPassword or ConfirmEmail request whose token decodes to an
\* expiration <= the time of verification is answered 400 and does nothing
\* else: no lookup, no mutation, no save, the accounts unchanged; no such
\* request is in flight.
C3_ExpiredTokenRejected ==
  /\ [](/\ \A s \in Slots :
              slots[s].op \in TokenOps => slots[s].date < slots[s].expiration
        /\ (last.op \in TokenOps /\ last.kind # "exception"
            /\ last.expiration <= last.date)
             => (last.kind = "error" /\ last.status = 400
                 /\ last.ev = <<"error">> /\ last.mod = {}))
  /\ [][(last'.op \in TokenOps /\ last'.kind # "exception"
         /\ last'.expiration <= last'.date) => users' = users]_vars

\* A mailed token is presented at the very minute it expires, and refused.
C3_Witness ==
  /\ last.op \in TokenOps
  /\ last.token \in {m.token : m \in outbox}
  /\ last.kind # "exception"
  /\ last.expiration = last.date
  /\ last.status = 400

\* ---------------------------------------------------------------------- C4
\* C4: when the two token classes have different keys, a ConfirmEmail request
\* that presents a token mailed by sendResetPassword, and a ResetPassword
\* request that presents a token mailed by sendConfirmEmail, ends in the
\* decipher: it never reaches the lookup, so it sets or changes nothing.
C4_CrossClassRejected ==
  settings.resetPasswordToken.password # settings.confirmEmailToken.password
    => \A r \in Requests :
         ((r.op = "confirmEmail" /\ r.token \in Mailed("resetPassword"))
          \/ (r.op = "resetPassword" /\ r.token \in Mailed("confirmEmail")))
           => (r.pc = "done" /\ r.kind = "exception" /\ r.ev = <<"throw">>
               /\ r.mod = {})

C4_Witness ==
  /\ settings.resetPasswordToken.password
       # settings.confirmEmailToken.password
  /\ last.op = "confirmEmail"
  /\ last.token \in Mailed("resetPassword")
  /\ users[last.token.text._id].exists
  /\ ~users[last.token.text._id].isConfirmed

\* ---------------------------------------------------------------------- C5
\* C5: a ResetPassword or ConfirmEmail request whose token does not decipher
\* (garbage, or a token of a class with another key) is answered 400.
C5_MalformedAnswered400 ==
  \A r \in Requests :
    (r.op \in TokenOps /\ r.pc = "done"
     /\ (r.token.garbage
         \/ r.token.password #
              (IF r.op = "confirmEmail"
               THEN settings.confirmEmailToken.password
               ELSE settings.resetPasswordToken.password)))
      => (r.kind = "error" /\ r.status = 400)


\* ---------------------------------------------------------------------- C6
\* C6: a token mailed for an account by sendConfirmEmail / sendResetPassword
\* under a configured timeout > 0, presented to the matching ConfirmEmail /
\* ResetPassword before the timeout has elapsed, deciphers, passes the expiry
\* check and names the account it was mailed for: the request goes on to look
\* that account up, and what it then saves is saved to that account.
ClassOf(op) == IF op = "confirmEmail" THEN "confirmEmail" ELSE "resetPassword"

TimeoutOf(class) ==
  IF class = "confirmEmail"
  THEN settings.confirmEmailToken.timeout
  ELSE settings.resetPasswordToken.timeout

C6_TokenRoundTrip ==
  \A r \in Requests : \A m \in outbox :
    (/\ r.op \in TokenOps
     /\ m.class = ClassOf(r.op)
     /\ r.token = m.token
     /\ TimeoutOf(m.class) > 0
     /\ r.date < m.date + TimeoutOf(m.class))
      => /\ r.kind # "exception"
         /\ r.status # 400
         /\ r.id = m.to
         /\ r.ev # <<>> /\ r.ev[1] = "find"
         /\ (r.kind = "result" /\ r.op = "confirmEmail")
              => users[m.to].isConfirmed
         /\ (r.kind = "result" /\ r.op = "resetPassword")
              => users[m.to].cred = r.password

\* A mailed confirm-email token and a mailed reset-password token each did
\* their work.
C6_Witness ==
  /\ last.op \in TokenOps
  /\ last.kind = "result"
  /\ \E m \in outbox : m.class = ClassOf(last.op) /\ m.token = last.token
                        /\ m.to = last.id
  /\ \E i \in Ids : users[i].exists /\ i # last.id

\* ---------------------------------------------------------------------- C7
\* The grace period: the configured confirm-email timeout, 1440 minutes when
\* none is configured.
Grace ==
  IF settings.confirmEmailToken.timeout = 0
  THEN 1440
  ELSE settings.confirmEmailToken.timeout

\* A login request that passed the credential check for an unconfirmed
\* account while confirmation is required.
Gated(r) ==
  /\ r.op = "login"
  /\ r.kind \in {"result", "error"}
  /\ ConfirmationRequired
  /\ ~r.doc.isConfirmed

\* C7 as stated: a gated login succeeds only while now < _created + grace and
\* is answered 403 at any now >= _created + grace.
C7_GraceStrict ==
  Gated(last) =>
    /\ last.kind = "result" <=> last.date < last.doc.created + Grace
    /\ (last.kind = "error" /\ last.status = 403)
         <=> last.date >= last.doc.created + Grace

\* C7 amended: a gated login succeeds while now <= _created + grace and is
\* answered 403 at any now > _created + grace; the grace period is 1440
\* minutes when unconfigured.
C7_GraceInclusive ==
  Gated(last) =>
    /\ last.kind = "result" <=> last.date <= last.doc.created + Grace
    /\ (last.kind = "error" /\ last.status = 403)
         <=> last.date > last.doc.created + Grace

\* A gated login under the default grace period, refused one minute after
\* the period's last minute.
C7_Witness ==
  /\ Gated(last)
  /\ settings.confirmEmailToken.timeout = 0
  /\ last.date = last.doc.created + 1440 + 1
  /\ last.status = 403

\* ---------------------------------------------------------------------- C8
\* C8: when confirmation is not required by configuration, no login request
\* is answered 403, whatever the account's isConfirmed and age.
C8_NoGateWhenDisabled ==
  ~ConfirmationRequired => ~(last.op = "login" /\ last.status = 403)

\* An unconfirmed account older than any grace period logs in.
C8_Witness ==
  /\ ~ConfirmationRequired
  /\ settings.mail.present
  /\ last.op = "login"
  /\ last.kind = "result"
  /\ ~last.doc.isConfirmed
  /\ last.date > last.doc.created + 1440

\* ---------------------------------------------------------------------- C9
\* C9: a login refused by the gate logs out before it answers 403; it stamps
\* no _lastLogin, starts no save and is finished with the answer; the session
\* holds no account after it and the accounts are unchanged.
C9_RefusedLoginTornDown ==
  /\ []((last.op = "login" /\ last.status = 403)
          => /\ last.ev = <<"logout", "error">>
             /\ last.pc = "done"
             /\ last.mod = {}
             /\ last.doc = users[last.id]
             /\ session = 0)
  /\ [][(last'.op = "login" /\ last'.status = 403)
          => (users' = users /\ slots' = slots)]_vars

\* An account that logged in within its grace period is refused after it.
C9_Witness ==
  /\ last.op = "login"
  /\ last.status = 403
  /\ users[last.id].lastLogin # Epoch

\* --------------------------------------------------------------------- C10
\* C10: every persisted account carries the owner grant and the admin-role
\* grant, each with {read, write, delete}, and no other grant.
C10_ExactlyTwoGrants ==
  \A i \in Ids :
    users[i].exists =>
      \A k \in Subjects :
        users[i].acl[k] = IF k \in {UserKey(i), RoleKey("admin")}
                          THEN {"read", "write", "delete"}
                          ELSE {}

\* --------------------------------------------------------------------- C11
\* C11: a token authorizes at most one successful action: once a ResetPassword
\* (a ConfirmEmail) request has completed its save with a token mailed for its
\* class, no ResetPassword (ConfirmEmail) request presenting the same token
\* completes a save again, so no credential is written and no confirmation is
\* saved a second time through it.
C11_OneShot ==
  [][\A u \in used :
       u[2] \in Mailed(ClassOf(u[1]))
         => ~(/\ last'.op = u[1]
              /\ last'.token = u[2]
              /\ last'.kind = "result")]_vars

\* --------------------------------------------------------------------- C12
RequestOps == {"resetPasswordRequest", "confirmEmailRequest"}

NoAccount(e) == \A i \in Ids : ~(users[i].exists /\ users[i].email = e)

\* C12: a ResetPasswordRequest or ConfirmEmailRequest for an email no account
\* has is finished by the lookup: it is answered 404 (500 when the lookup
\* itself fails), it mints no token, hands nothing to the mail transport and
\* leaves the outbox and the accounts as they are.
C12_UnknownEmailNotFound ==
  /\ [](\A r \in Requests :
          (r.op \in RequestOps /\ NoAccount(r.email))
            => /\ r.pc = "done"
               /\ r.kind = "error"
               /\ r.status \in {404, 500}
               /\ r.ev = <<"find", "error">>
               /\ r.mail = Garbage
               /\ r.id = 0)
  /\ [][\A s \in Slots, e \in Emails :
         (/\ NoAccount(e)
          /\ \/ ResetPasswordRequest(s, e, TRUE)
             \/ ConfirmEmailRequest(s, e, TRUE))
           => /\ last'.status = 404
              /\ outbox' = outbox
              /\ users' = users
              /\ slots' = slots]_vars

\* With mail enabled and another account registered, a request for an email
\* no account has is answered 404.
C12_Witness ==
  /\ last.op \in RequestOps
  /\ last.status = 404
  /\ NoAccount(last.email)
  /\ ConfirmationRequired
  /\ \E i \in Ids : users[i].exists

\* --------------------------------------------------------------------- C13
\* C13: with confirmation not required by configuration, a registration the
\* credential store accepted is answered with the filtered account as a
\* success result, the account in the answer has isConfirmed = false, and no
\* token is minted and nothing is handed to the mail transport.
C13_RegisterConfirmationDisabled ==
  \A r \in Requests :
    (r.op = "create" /\ ~ConfirmationRequired /\ r.doc.created # Epoch)
      => /\ r.pc = "done"
         /\ r.kind = "result"
         /\ r.status = 200
         /\ r.ev = <<"setAccess", "setAccess", "register", "saved", "filter",
                     "result">>
         /\ r.mail = Garbage
         /\ outbox = {}
         /\ r.doc.isConfirmed = FALSE

\* --------------------------------------------------------------------- C14
\* A ConfirmEmail request has completed its save for the account.
ConfirmedByToken(i) ==
  \E u \in used : u[1] = "confirmEmail" /\ u[2].text._id = i

\* C14: when a registration has persisted its account and the mail transport
\* then fails, the request is answered 500 and the failure changes no account:
\* the new account stays persisted under its email, and unconfirmed
\* unless a ConfirmEmail request confirmed it meanwhile; no account is ever
\* removed; and a ConfirmEmailRequest that finds an unconfirmed account while
\* confirmation is required mints a token for it and hands it to the
\* transport, whose acceptance puts it in the outbox.
C14_RegisterNoRollback ==
  /\ [][\A s \in Slots :
         (slots[s].op = "create" /\ CreateMailDone(s, FALSE))
           => /\ last'.op = "create"
              /\ last'.kind = "error"
              /\ last'.status = 500
              /\ users' = users
              /\ users'[slots[s].id].exists
              /\ users'[slots[s].id].email = slots[s].email
              /\ (users'[slots[s].id].isConfirmed
                    => ConfirmedByToken(slots[s].id))]_vars
  /\ [][\A i \in Ids : users[i].exists => users'[i].exists]_vars
  /\ [](\A r \in Requests :
          (/\ r.op = "confirmEmailRequest"
           /\ r.id # 0
           /\ ~r.doc.isConfirmed
           /\ ConfirmationRequired)
            => /\ Len(r.ev) >= 3
               /\ SubSeq(r.ev, 1, 3) = <<"find", "mint", "send">>
               /\ r.mail.text._id = r.id
               /\ r.mail.password = settings.confirmEmailToken.password
               /\ r.kind = "result"
                    => \E m \in outbox : m.to = r.id /\ m.token = r.mail)

\* The registration of the only account was answered 500 because the mail
\* failed (the outbox holds no message of its minute); a later
\* ConfirmEmailRequest for the account has its token mailed.
C14_Witness ==
  /\ last.op = "confirmEmailRequest"
  /\ last.kind = "result"
  /\ started = 2
  /\ \A s \in Slots : slots[s].pc = "idle"
  /\ users[last.id].exists
  /\ ~users[last.id].isConfirmed
  /\ users[last.id].created < last.date
  /\ outbox = {[class |-> "confirmEmail", to |-> last.id, token |-> last.mail,
                date |-> last.date]}

\* --------------------------------------------------------------------- C15
\* C15: a ConfirmEmailRequest that finds an account whose isConfirmed is true
\* is answered with an error (500) at once: it mints no token, hands nothing
\* to the mail transport, and the accounts and the outbox stay as they are.
C15_AlreadyConfirmedRefused ==
  /\ [](\A r \in Requests :
          (r.op = "confirmEmailRequest" /\ r.id # 0 /\ r.doc.isConfirmed)
            => /\ r.pc = "done"
               /\ r.kind = "error"
               /\ r.status = 500
               /\ r.ev = <<"find", "error">>
               /\ r.mail = Garbage)
  /\ [][(/\ last'.op = "confirmEmailRequest"
         /\ last'.id # 0
         /\ last'.doc.isConfirmed)
          => (users' = users /\ outbox' = outbox /\ slots' = slots)]_vars

\* Confirmation is required, the account was confirmed by its mailed token,
\* and a ConfirmEmailRequest for it is refused.
C15_Witness ==
  /\ ConfirmationRequired
  /\ last.op = "confirmEmailRequest"
  /\ last.id # 0
  /\ last.doc.isConfirmed
  /\ last.status = 500
  /\ ConfirmedByToken(last.id)
  /\ users[last.id].isConfirmed

\* --------------------------------------------------------------------- C16
\* C16: a ChangePassword request of a logged-in account whose oldPassword is
\* not the account's credential is answered with a 500-class error; it calls
\* neither setPassword nor save and the stored accounts are unchanged.
C16_WrongOldPasswordAnswered500 ==
  [][\A s \in Slots, o \in Passwords, n \in NewPasswords :
       (/\ session # 0
        /\ users[session].cred # o
        /\ ChangePassword(s, o, n))
         => /\ last'.op = "changePassword"
            /\ last'.kind = "error"
            /\ last'.status \in 500 .. 599
            /\ last'.ev = <<"authenticate", "error">>
            /\ users' = users
            /\ slots' = slots]_vars

\* --------------------------------------------------------------------- C18
\* The timeout configured for the token class a request operation mints.
RequestTimeout(op) ==
  IF op = "confirmEmailRequest"
  THEN settings.confirmEmailToken.timeout
  ELSE settings.resetPasswordToken.timeout

\* C18: when the timeout of its token class is absent from the configuration,
\* a ResetPasswordRequest or ConfirmEmailRequest mints no token, hands nothing
\* to the mail transport and ends in an error response.
C18_MissingTimeoutFailsClosed ==
  \A r \in Requests :
    (r.op \in RequestOps /\ RequestTimeout(r.op) = NoTimeout)
      => /\ r.pc = "done"
         /\ r.kind = "error"
         /\ r.mail = Garbage
         /\ \A k \in 1 .. Len(r.ev) : r.ev[k] \notin {"mint", "send"}

\* --------------------------------------------------------------------- C19
\* The event e occurs in the events ev, and before the event f if f occurs.
Before(ev, e, f) ==
  \E k \in 1 .. Len(ev) :
    /\ ev[k] = e
    /\ \A j \in 1 .. Len(ev) : ev[j] = f => k < j

\* C19: a login is answered with a success result only after the save of
\* _lastLogin has completed, and a login whose save failed is answered with
\* an error, not with a result.
C19_LoginSavesBeforeAnswer ==
  \A r \in Requests :
    r.op = "login" =>
      /\ r.kind = "result" => Before(r.ev, "saved", "result")
      /\ (\E k \in 1 .. Len(r.ev) : r.ev[k] = "savefailed")
           => r.kind = "error"

\* --------------------------------------------------------------------- C20
\* The template of the call's token class exists and is not enabled.
TemplateDisabled(op) ==
  settings.mail.present /\ ~settings.mail[TemplateName(op)]

\* C20: a call of Email.sendResetPassword or Email.sendConfirmEmail whose
\* template is marked not enabled generates no token and does not call
\* Email.send, and no message of a class whose template is not enabled is
\* dispatched.
C20_DisabledTemplateSendsNothing ==
  /\ \A r \in Requests :
       (r.op \in EmailOps /\ TemplateDisabled(r.op))
         => /\ r.mail = Garbage
            /\ r.pc # "send"
            /\ \A k \in 1 .. Len(r.ev) : r.ev[k] \notin {"mint", "send"}
  /\ \A m \in outbox :
       ~(settings.mail.present
         /\ ~settings.mail[IF m.class = "confirmEmail" THEN "confirmEmail"
                           ELSE "passwordResetRequest"])

\* --------------------------------------------------------------------- C21
Orchestrators ==
  {"login", "create", "resetPassword", "resetPasswordRequest", "confirmEmail",
   "confirmEmailRequest", "changePassword", "currentIsInRole"}

\* The number of calls of server.result and server.error among the events.
Answers(ev) ==
  Cardinality({k \in 1 .. Len(ev) : ev[k] \in {"result", "error"}})

\* C21: every invocation of a handler of users.js calls server.result or
\* server.error at most once while it runs and exactly once by the time it
\* has finished, whatever the store, the credential library and the mail
\* transport answer.  (A login passport refuses with 401 never invokes the
\* handler.)
C21_ExactlyOneResponse ==
  \A r \in Requests :
    (r.op \in Orchestrators /\ r.kind # "unauthorized")
      => /\ Answers(r.ev) <= 1
         /\ r.pc = "done" => Answers(r.ev) = 1

\* --------------------------------------------------------------------- C22
\* The reset-password feature is enabled by configuration.
ResetRequired ==
  settings.mail.present /\ settings.mail.passwordResetRequest

\* C22: a ResetPasswordRequest that finds an account mints a reset token and
\* hands it to the mail transport exactly when reset-password is enabled,
\* whatever the confirm-email flag is; when it is not enabled the request
\* ends in an error and nothing is minted.
C22_ResetDependsOnResetFlag ==
  \A r \in Requests :
    (r.op = "resetPasswordRequest" /\ r.id # 0)
      => IF ResetRequired
         THEN /\ Len(r.ev) >= 3
              /\ SubSeq(r.ev, 1, 3) = <<"find", "mint", "send">>
              /\ r.mail.text._id = r.id
         ELSE /\ r.kind = "error"
              /\ r.ev = <<"find", "error">>
              /\ r.mail = Garbage

\* --------------------------------------------------------------------- C23
\* C23: every call of Email.sendResetPassword and Email.sendConfirmEmail
\* settles the promise it returned: when the chain of callbacks it started
\* has come to its end, whether by the transport's answer or by a failed
\* template lookup, a missing template or a failed property lookup, the
\* promise is settled, so the caller is not left waiting.
C23_PromiseSettles ==
  \A r \in Requests :
    (r.op \in EmailOps /\ r.pc = "done") => r.kind # "none"

C24_SuccessWitness ==
  /\ last.op = "resetPassword"
  /\ last.kind = "result"
  /\ users[last.id].exists
  /\ users[last.id].cred = last.password
  /\ ~users[last.id].isConfirmed
  /\ \E m \in outbox : m.token = last.token /\ m.to = last.id

====
